---------------------------- MODULE Spec2Model ----------------------------
(***************************************************************************)
(* Frame-extraction backend: the upload server (src/server.js) and the     *)
(* command-line extractor (src/video_to_frames.js).                        *)
(*                                                                         *)
(* A run is one upload request (server profile) or the one invocation of   *)
(* main() (CLI profile).  JavaScript runs every callback to completion, so *)
(* each action is one callback together with the continuation of the async *)
(* function it wakes up (the microtasks that follow it).                   *)
(*                                                                         *)
(* JavaScript values are tagged records: Num(n) an integer number, NaN,    *)
(* Infinity, Undefined, Str(s) a string given as a sequence of characters. *)
(* Numbers are exact (no floating-point rounding); percentages are         *)
(* positive rationals n/d.                                                 *)
(*                                                                         *)
(* The environment: every spawn succeeds; a subprocess ends with an exit   *)
(* code (not a signal); the uploads of one execution are of the same       *)
(* video, so ffprobe prints the same text for each.                        *)
(***************************************************************************)
EXTENDS Integers, Sequences, FiniteSets, TLC

\* Bounds of the model.
MaxReq == 2        \* upload requests the server receives
MaxPartial == 1    \* stdout 'data' events, in an execution, that carry only
                   \* a part of the text still to come
MaxStderr == 1     \* stderr 'data' events in an execution

-----------------------------------------------------------------------------
(* JavaScript values and the library functions the code calls.             *)

Undefined == [k |-> "undefined"]
NaN == [k |-> "NaN"]
Infinity == [k |-> "Infinity"]
Num(n) == [k |-> "num", v |-> n]
Str(s) == [k |-> "str", s |-> s]

\* if (x), x ? a : b  for a number or undefined: 0, NaN and undefined are falsy.
Truthy(x) == x.k = "Infinity" \/ (x.k = "num" /\ x.v # 0)

Digits == <<"0", "1", "2", "3", "4", "5", "6", "7", "8", "9">>
IsDigit(c) == \E i \in 1..10 : Digits[i] = c
DigitVal(c) == (CHOOSE i \in 1..10 : Digits[i] = c) - 1

RECURSIVE DigitsValue(_)
DigitsValue(s) ==
    IF s = <<>> THEN 0
    ELSE 10 * DigitsValue(SubSeq(s, 1, Len(s) - 1)) + DigitVal(s[Len(s)])

\* The longest prefix of s made of decimal digits.
RECURSIVE LeadingDigits(_)
LeadingDigits(s) ==
    IF s = <<>> \/ ~IsDigit(s[1]) THEN <<>>
    ELSE <<s[1]>> \o LeadingDigits(Tail(s))

\* parseInt(x): the leading decimal digits of the string (after an optional
\* minus sign), NaN when there are none; undefined reads as "undefined".
parseInt(x) ==
    IF x.k # "str" THEN NaN
    ELSE LET neg == x.s # <<>> /\ x.s[1] = "-"
             d == LeadingDigits(IF neg THEN Tail(x.s) ELSE x.s)
         IN IF d = <<>> THEN NaN
            ELSE Num(IF neg THEN 0 - DigitsValue(d) ELSE DigitsValue(d))

\* ToNumber, as applied by the operator / to its operands: the empty string
\* is 0, a string of digits its value, any other string and undefined NaN.
ToNumber(x) ==
    IF x.k # "str" THEN NaN
    ELSE IF x.s = <<>> THEN Num(0)
    ELSE IF \A i \in 1..Len(x.s) : IsDigit(x.s[i]) THEN Num(DigitsValue(x.s))
    ELSE NaN

\* a / b on the non-negative numbers ToNumber yields: n/0 is Infinity, 0/0
\* and anything with NaN is NaN, else the exact ratio.
Divide(a, b) ==
    IF a.k = "NaN" \/ b.k = "NaN" THEN NaN
    ELSE IF b.v = 0 THEN (IF a.v = 0 THEN NaN ELSE Infinity)
    ELSE [k |-> "ratio", n |-> a.v, d |-> b.v]

\* s.split(sep): the pieces of s between the occurrences of the character sep.
RECURSIVE Split(_, _)
Split(s, sep) ==
    IF \A i \in 1..Len(s) : s[i] # sep THEN <<s>>
    ELSE LET i == CHOOSE j \in 1..Len(s) :
                      s[j] = sep /\ \A m \in 1..(j - 1) : s[m] # sep
         IN <<SubSeq(s, 1, i - 1)>> \o Split(SubSeq(s, i + 1, Len(s)), sep)

\* const [num, den] = arr: a missing element is undefined.
Element(arr, i) == IF i <= Len(arr) THEN Str(arr[i]) ELSE Undefined

\* Mutant of MathCeilDiv: Math.floor in place of Math.ceil.
MathFloorDiv(t, i) ==
    IF t.k = "NaN" THEN NaN ELSE Num(t.v \div i)

\* Math.ceil(t / i) for a number t and a positive integer i.
MathCeilDiv(t, i) ==
    IF t.k = "NaN" THEN NaN ELSE Num(0 - ((0 - t.v) \div i))

\* Math.min(a, b): NaN if either is NaN.
MathMin(a, b) ==
    IF a.k = "NaN" \/ b.k = "NaN" THEN NaN
    ELSE IF a.v <= b.v THEN a ELSE b

\* Math.round(100 / p) for a positive rational p = n/d: floor(100 d / n + 1/2).
MathRound100Over(p) == (200 * p.d + p.n) \div (2 * p.n)

MathMax(a, b) == IF a >= b THEN a ELSE b


\* n.toString() for an integer n, as a sequence of characters.
RECURSIVE NatToString(_)
NatToString(n) ==
    IF n < 10 THEN <<Digits[n + 1]>>
    ELSE NatToString(n \div 10) \o <<Digits[(n % 10) + 1]>>

NumberToString(x) ==
    IF x.k = "NaN" THEN <<"NaN">>
    ELSE IF x.k = "Infinity" THEN <<"Infinity">>
    ELSE IF x.v < 0 THEN <<"-">> \o NatToString(0 - x.v)
    ELSE NatToString(x.v)

\* new Error(`text${arg}`): the literal text and the interpolated values.
Error(text, args) == [k |-> "Error", text |-> text, args |-> args]

\* A path is its sequence of segments; path.join concatenates and
\* normalizes, which drops the "." segments.
RECURSIVE Normalize(_)
Normalize(p) ==
    IF p = <<>> THEN <<>>
    ELSE IF p[1] = "." THEN Normalize(Tail(p))
    ELSE <<p[1]>> \o Normalize(Tail(p))

pathJoin(a, b) == Normalize(a \o b)

\* The text of a path: its segments separated by "/".
RECURSIVE PathString(_)
PathString(p) ==
    IF Len(p) <= 1 THEN p
    ELSE <<p[1], "/">> \o PathString(Tail(p))

-----------------------------------------------------------------------------
(* ffprobe's JSON output.  A text is a sequence of tokens; JSON.parse is   *)
(* the inverse of the encoding on the documents considered and a           *)
(* SyntaxError on every other text (the empty text, a truncated one).      *)

Array(a) == [k |-> "array", a |-> a]
Stream(nb, rate) == [k |-> "object", nb_frames |-> nb, r_frame_rate |-> rate]
Info(streams) == [k |-> "object", streams |-> streams]

NbFramesValues ==
    { Str(<<"0">>), Str(<<"1">>), Str(<<"3", "0">>),
      Str(<<"1", "0", "0", "0">>), Str(<<"N", "/", "A">>), Undefined }

FrameRateValues ==
    { Str(<<"3", "0", "/", "1">>), Str(<<"3", "0", "0", "0", "0", "/", "1", "0", "0", "1">>),
      Str(<<"0", "/", "0">>), Str(<<"3", "0", "/", "0">>), Str(<<"3", "0">>),
      Undefined }

\* The frame rate is varied on a 30-frame stream, the frame count on a
\* 30/1 stream.
JsonDocs ==
    { Info(Array(<<Stream(nb, Str(<<"3", "0", "/", "1">>))>>)) : nb \in NbFramesValues }
    \cup { Info(Array(<<Stream(Str(<<"3", "0">>), rate)>>)) : rate \in FrameRateValues }
    \cup { Info(Array(<<>>)), Info(Undefined) }

EncodeField(name, v) ==
    IF v.k = "str" THEN <<name, "\"">> \o v.s \o <<"\"">> ELSE <<>>

EncodeStream(s) ==
    <<"{">> \o EncodeField("nb_frames:", s.nb_frames)
            \o EncodeField("r_frame_rate:", s.r_frame_rate) \o <<"}">>

RECURSIVE EncodeStreams(_)
EncodeStreams(a) ==
    IF a = <<>> THEN <<>> ELSE EncodeStream(a[1]) \o EncodeStreams(Tail(a))

Encode(info) ==
    <<"{">> \o (IF info.streams.k = "array"
                THEN <<"streams:[">> \o EncodeStreams(info.streams.a) \o <<"]">>
                ELSE <<>>) \o <<"}">>

\* Texts ffprobe may print: a document, nothing, or a truncated document.
ProbeTexts ==
    { Encode(d) : d \in JsonDocs } \cup { <<>>, <<"{", "streams:[", "{">> }

\* The well-formed texts, each with the document it is the encoding of.
EncodedDocs == { <<Encode(d), d>> : d \in JsonDocs }

\* JSON.parse: the inverse of Encode; ok is FALSE where it throws.
JSONparse(text) ==
    IF \E p \in EncodedDocs : p[1] = text
    THEN [ok |-> TRUE, v |-> (CHOOSE p \in EncodedDocs : p[1] = text)[2]]
    ELSE [ok |-> FALSE, v |-> Undefined]

ExitCodes == {0, 1, 2}

-----------------------------------------------------------------------------
(* getVideoInfo and the two extractFrames.                                 *)

Throw(name) == [settle |-> "none", val |-> Undefined, thrown |-> name]
Resolve(v) == [settle |-> "resolved", val |-> v, thrown |-> "none"]
Reject(e) == [settle |-> "rejected", val |-> e, thrown |-> "none"]

\* Mutant of getVideoInfoClose: the promise resolves whatever the exit code,
\* nothing being parsed.
getVideoInfoCloseBlind(code, output) ==
    Resolve([frameRate |-> NaN, totalFrames |-> NaN])

\* The 'close' callback of ffprobe: what it does to the promise, or the
\* exception it throws (it runs as an event callback, outside the promise's
\* executor).  The server's copy is the same text.
getVideoInfoClose(code, output) ==
    IF code # 0 THEN Reject(Error("Failed to get video information", <<>>))
    ELSE LET parsed == JSONparse(output) IN
         IF ~parsed.ok THEN Throw("SyntaxError")
         ELSE LET info == parsed.v IN
              IF info.streams.k = "undefined" THEN Throw("TypeError")
              ELSE LET stream == IF Len(info.streams.a) >= 1
                                 THEN info.streams.a[1] ELSE Undefined
                   IN IF stream.k = "undefined" THEN Throw("TypeError")
                      ELSE IF stream.r_frame_rate.k = "undefined" THEN Throw("TypeError")
                      ELSE LET parts == Split(stream.r_frame_rate.s, "/")
                               num == Element(parts, 1)
                               den == Element(parts, 2)
                               frameRate == Divide(ToNumber(num), ToNumber(den))
                               totalFrames == parseInt(stream.nb_frames)
                           IN Resolve([frameRate |-> frameRate,
                                       totalFrames |-> totalFrames])

\* Mutant of extractFramesClose: the promise resolves whatever the exit code.
extractFramesCloseSilent(code) == Resolve(Undefined)

\* The 'close' callback of ffmpeg, the same in both files.
extractFramesClose(code) ==
    IF code = 0 THEN Resolve(Undefined)
    ELSE Reject(Error("ffmpeg process exited with code ", <<code>>))

\* Mutant of frameIntervalOf: Math.floor in place of Math.round.
frameIntervalFloor(percentage) ==
    MathMax(1, (100 * percentage.d) \div percentage.n)

\* main: the sampling plan.
frameIntervalOf(percentage) == MathMax(1, MathRound100Over(percentage))

effectiveMaxFramesOf(maxFrames, totalFrames, frameInterval) ==
    IF Truthy(maxFrames)
    THEN MathMin(maxFrames, MathCeilDiv(totalFrames, frameInterval))
    ELSE MathCeilDiv(totalFrames, frameInterval)

\* Each argument is a sequence of tokens.
VframesArgs(maxFrames) == << <<"-vframes">>, NumberToString(maxFrames) >>

\* extractFrames of the CLI: the ffmpeg argument list.
CliFfmpegArgs(inputPath, outputDir, frameInterval, maxFrames) ==
    LET ffmpegArgs ==
            << <<"-i">>, inputPath,
               <<"-vf">>, <<"select='not(mod(n,">> \o NatToString(frameInterval) \o <<"))'">>,
               <<"-vsync">>, <<"0">>,
               <<"-frame_pts">>, <<"1">>,
               <<"-f">>, <<"image2">>,
               PathString(pathJoin(outputDir, <<"frame_%d.jpg">>)) >>
    IN IF Truthy(maxFrames)
       THEN SubSeq(ffmpegArgs, 1, 2) \o VframesArgs(maxFrames)
                \o SubSeq(ffmpegArgs, 3, Len(ffmpegArgs))
       ELSE ffmpegArgs

OUTPUT == <<".", "frames">>

\* Mutant of ServerFfmpegArgs: the cap is the maxFrames argument.
ServerFfmpegArgsUsesMax(inputPath, outputDir, maxFrames) ==
    << <<"-i">>, inputPath,
       <<"-vframes">>, NumberToString(maxFrames),
       <<"-vsync">>, <<"0">>,
       <<"-frame_pts">>, <<"1">>,
       <<"-f">>, <<"image2">>,
       PathString(pathJoin(outputDir, <<"frame_%d.jpg">>)) >>

\* extractFrames of the server: the ffmpeg argument list.
ServerFfmpegArgs(inputPath, outputDir, maxFrames) ==
    << <<"-i">>, inputPath,
       <<"-vframes">>, <<"2", "0", "0">>,
       <<"-vsync">>, <<"0">>,
       <<"-frame_pts">>, <<"1">>,
       <<"-f">>, <<"image2">>,
       PathString(pathJoin(outputDir, <<"frame_%d.jpg">>)) >>

\* res.json(body) on an Express response: it writes the response with the
\* current status code, and throws once the headers have been sent.
ResJson(res, body) ==
    IF res.headersSent
    THEN [res EXCEPT !.thrown = "ERR_HTTP_HEADERS_SENT", !.jsonCalls = @ + 1]
    ELSE [res EXCEPT !.headersSent = TRUE, !.jsonCalls = @ + 1,
                     !.wire = Append(@, [status |-> res.statusCode, body |-> body])]

ResStatus(res, code) == [res EXCEPT !.statusCode = code]

-----------------------------------------------------------------------------
(* State.                                                                  *)

VARIABLES
    mode,            \* "cli": video_to_frames.js runs; "server": server.js runs
    argv,            \* the parsed command line (CLI)
    video,           \* the text ffprobe prints for the input file(s)
    fsDir,           \* the output directory: "absent", "present", or
                     \* "blocked" (absent, and mkdirSync fails)
    proc,            \* the Node process: "up", "exit0", "exit1", "crashed"
    pc,              \* per run: where main / the upload handler stands
    ffprobe,         \* per run: the ffprobe subprocess
    output,          \* per run: getVideoInfo's  let output
    probePromise,    \* per run: the promise getVideoInfo returned
    ffmpeg,          \* per run: the ffmpeg subprocess
    extractPromise,  \* per run: the promise extractFrames returned
    plan,            \* per run: totalFrames, frameInterval, effectiveMaxFrames
    log,             \* per run: the console lines written
    res,             \* per run: the Express response object
    stderrEvents,    \* stderr 'data' events delivered so far
    partialEvents    \* partial stdout 'data' events delivered so far

vars == <<mode, argv, video, fsDir, proc, pc, ffprobe, output, probePromise, ffmpeg,
          extractPromise, plan, log, res, stderrEvents, partialEvents>>

Runs == 1..MaxReq

\* --percentage values, as rationals n/d: 100, 25, 10, 40 (100/40 = 2.5),
\* 3, 200 and 0.5.
Percentages ==
    { [n |-> 100, d |-> 1], [n |-> 25, d |-> 1], [n |-> 10, d |-> 1],
      [n |-> 40, d |-> 1], [n |-> 3, d |-> 1], [n |-> 200, d |-> 1],
      [n |-> 1, d |-> 2] }

\* --maxFrames values: absent, or any number.
MaxFramesValues == { Undefined, Num(0), Num(0 - 1), Num(1), Num(50) }

ArgvValues ==
    [input : {<<"in.mp4">>}, output : {OUTPUT},
     percentage : Percentages, maxFrames : MaxFramesValues]

\* A subprocess not spawned yet; code -1 stands for "has not exited".
NoChild ==
    [st |-> "none", args |-> <<>>, pending |-> <<>>,
     code |-> 0 - 1, spawns |-> 0]

NoPromise == [st |-> "none", val |-> Undefined]
Pending == [st |-> "pending", val |-> Undefined]

NewRes ==
    [statusCode |-> 200, headersSent |-> FALSE, jsonCalls |-> 0, wire |-> <<>>,
     thrown |-> "none"]

Init ==
    /\ mode \in {"cli", "server"}
    /\ argv \in ArgvValues
    /\ mode = "server" =>
           argv = [input |-> <<"in.mp4">>, output |-> OUTPUT,
                   percentage |-> [n |-> 100, d |-> 1], maxFrames |-> Undefined]
    /\ video \in ProbeTexts
    /\ fsDir \in {"absent", "blocked"}
    /\ proc = "up"
    /\ pc = [r \in Runs |-> "new"]
    /\ ffprobe = [r \in Runs |-> NoChild]
    /\ output = [r \in Runs |-> <<>>]
    /\ probePromise = [r \in Runs |-> NoPromise]
    /\ ffmpeg = [r \in Runs |-> NoChild]
    /\ extractPromise = [r \in Runs |-> NoPromise]
    /\ plan = [r \in Runs |-> [k |-> "none"]]
    /\ log = [r \in Runs |-> <<>>]
    /\ res = [r \in Runs |-> NewRes]
    /\ stderrEvents = 0
    /\ partialEvents = 0

\* spawn('ffprobe', [...]) inside getVideoInfo: the subprocess will print
\* the video's text; the promise is pending.
SpawnProbe(r, inputPath) ==
    /\ ffprobe' = [ffprobe EXCEPT ![r] =
               [NoChild EXCEPT !.st = "running", !.pending = video,
                               !.spawns = ffprobe[r].spawns + 1,
                               !.args = << <<"-v">>, <<"error">>,
                                           <<"-select_streams">>, <<"v:0">>,
                                           <<"-show_entries">>,
                                           <<"stream=nb_frames,r_frame_rate">>,
                                           <<"-of">>, <<"json">>, inputPath >>]]
    /\ output' = [output EXCEPT ![r] = <<>>]
    /\ probePromise' = [probePromise EXCEPT ![r] = Pending]

\* req.file.path of the r-th upload: multer's destination and unique name.
FilePath(r) == PathString(<<"uploads", ToString(r)>>)

SuccessBody == "File uploaded successfully"

-----------------------------------------------------------------------------
(* Actions.                                                                *)

\* main(), up to its first await: getVideoInfo(argv.input) spawns ffprobe.
CliMain ==
    /\ mode = "cli" /\ proc = "up" /\ pc[1] = "new"
    /\ SpawnProbe(1, argv.input)
    /\ pc' = [pc EXCEPT ![1] = "awaitProbe"]
    /\ UNCHANGED <<mode, argv, video, fsDir, proc, ffmpeg, extractPromise,
                   plan, log, res, stderrEvents, partialEvents>>

\* Mutant of Upload: the handler calls getVideoInfo before it answers.
UploadLate(r, hasFile) ==
    /\ mode = "server" /\ proc = "up" /\ pc[r] = "new"
    /\ r > 1 => pc[r - 1] # "new"
    /\ IF ~hasFile
       THEN /\ res' = [res EXCEPT ![r] =
                   ResJson(ResStatus(res[r], 400), "No file uploaded")]
            /\ pc' = [pc EXCEPT ![r] = "done"]
            /\ UNCHANGED <<ffprobe, output, probePromise>>
       ELSE /\ SpawnProbe(r, FilePath(r))
            /\ pc' = [pc EXCEPT ![r] = "awaitProbe"]
            /\ UNCHANGED res
    /\ UNCHANGED <<mode, argv, video, fsDir, proc, ffmpeg, extractPromise, plan,
                   log, stderrEvents, partialEvents>>

\* POST /upload, up to the handler's first await.  Without a file it answers
\* 400 and returns; with one it answers and then calls getVideoInfo.
Upload(r, hasFile) ==
    /\ mode = "server" /\ proc = "up" /\ pc[r] = "new"
    /\ r > 1 => pc[r - 1] # "new"
    /\ IF ~hasFile
       THEN /\ res' = [res EXCEPT ![r] =
                   ResJson(ResStatus(res[r], 400), "No file uploaded")]
            /\ pc' = [pc EXCEPT ![r] = "done"]
            /\ UNCHANGED <<ffprobe, output, probePromise>>
       ELSE /\ res' = [res EXCEPT ![r] = ResJson(res[r], SuccessBody)]
            /\ SpawnProbe(r, FilePath(r))
            /\ pc' = [pc EXCEPT ![r] = "awaitProbe"]
    /\ UNCHANGED <<mode, argv, video, fsDir, proc, ffmpeg, extractPromise,
                   plan, log, stderrEvents, partialEvents>>

\* A 'data' event carries all of the text still to come, or half of it.
ChunkSizes(pending) == {Len(pending), (Len(pending) + 1) \div 2}

\* ffprobe.stdout.on('data'): output += data.
StdoutData(r) ==
    /\ proc = "up" /\ ffprobe[r].st = "running" /\ ffprobe[r].pending # <<>>
    /\ \E n \in ChunkSizes(ffprobe[r].pending) :
           /\ partialEvents < MaxPartial \/ n = Len(ffprobe[r].pending)
           /\ partialEvents' =
                  IF n < Len(ffprobe[r].pending) THEN partialEvents + 1
                  ELSE partialEvents
           /\ output' = [output EXCEPT ![r] = @ \o SubSeq(ffprobe[r].pending, 1, n)]
           /\ ffprobe' = [ffprobe EXCEPT
                  ![r].pending = SubSeq(@, n + 1, Len(@))]
    /\ UNCHANGED <<mode, argv, video, fsDir, proc, pc, probePromise, ffmpeg,
                   extractPromise, plan, log, res, stderrEvents>>

\* Mutant of ProbeStderr: diagnostic output rejects the promise.
ProbeStderrRejects(r) ==
    /\ proc = "up" /\ ffprobe[r].st = "running" /\ stderrEvents < MaxStderr
    /\ stderrEvents' = stderrEvents + 1
    /\ log' = [log EXCEPT ![r] = Append(@, "ffprobe error:")]
    /\ probePromise' = [probePromise EXCEPT ![r] =
           [st |-> "rejected", val |-> Error("ffprobe error", <<>>)]]
    /\ UNCHANGED <<mode, argv, video, fsDir, proc, pc, ffprobe, output,
                   ffmpeg, extractPromise, plan, res, partialEvents>>

\* ffprobe.stderr.on('data'): console.error.
ProbeStderr(r) ==
    /\ proc = "up" /\ ffprobe[r].st = "running" /\ stderrEvents < MaxStderr
    /\ stderrEvents' = stderrEvents + 1
    /\ log' = [log EXCEPT ![r] = Append(@, "ffprobe error:")]
    /\ UNCHANGED <<mode, argv, video, fsDir, proc, pc, ffprobe, output,
                   probePromise, ffmpeg, extractPromise, plan, res,
                   partialEvents>>

\* ffmpeg.stderr.on('data'): console.error.
FfmpegStderr(r) ==
    /\ proc = "up" /\ ffmpeg[r].st = "running" /\ stderrEvents < MaxStderr
    /\ stderrEvents' = stderrEvents + 1
    /\ log' = [log EXCEPT ![r] = Append(@, "ffmpeg error:")]
    /\ UNCHANGED <<mode, argv, video, fsDir, proc, pc, ffprobe, output,
                   probePromise, ffmpeg, extractPromise, plan, res,
                   partialEvents>>

\* Mutant of CliCatch: the catch block exits without printing.
CliCatchSilent(r, lg) ==
    /\ log' = [log EXCEPT ![r] = lg]
    /\ proc' = "exit1"
    /\ pc' = [pc EXCEPT ![r] = "failed"]
    /\ UNCHANGED res

\* The catch block of main: console.error('Error:', ...); process.exit(1).
CliCatch(r, lg) ==
    /\ log' = [log EXCEPT ![r] = Append(lg, "Error:")]
    /\ proc' = "exit1"
    /\ pc' = [pc EXCEPT ![r] = "failed"]
    /\ UNCHANGED res

\* The catch block of the upload handler: console.error, then
\* res.status(500).json(...).  When json throws, the async handler's promise
\* is rejected with nothing to catch it: an unhandled rejection, which ends
\* the process or not depending on the Node version and its flags.
ServerCatch(r, lg) ==
    LET after == ResJson(ResStatus(res[r], 500), "File upload failed") IN
    /\ log' = [log EXCEPT ![r] = Append(lg, "Upload error:")]
    /\ res' = [res EXCEPT ![r] = after]
    /\ IF after.thrown # "none"
       THEN /\ pc' = [pc EXCEPT ![r] = "rejected"]
            /\ proc' \in {"up", "crashed"}
       ELSE /\ pc' = [pc EXCEPT ![r] = "done"]
            /\ proc' = proc

\* Mutant of Catch: a failure sends the run back to its start.
CatchRetry(r, lg) ==
    /\ log' = [log EXCEPT ![r] = lg]
    /\ pc' = [pc EXCEPT ![r] = "new"]
    /\ UNCHANGED <<proc, res>>

Catch(r, lg) == IF mode = "cli" THEN CliCatch(r, lg) ELSE ServerCatch(r, lg)

\* An exception thrown by an event callback: nothing catches it, the awaited
\* promise stays pending, and Node (no 'uncaughtException' listener being
\* installed) prints the exception on stderr and ends the process.
UncaughtException(r) ==
    /\ proc' = "crashed"
    /\ pc' = [pc EXCEPT ![r] = "hung"]
    /\ log' = [log EXCEPT ![r] = Append(@, "Uncaught")]
    /\ UNCHANGED res

\* The exit status of the Node process: process.exit's argument, 1 when it
\* died of an uncaught exception or an unhandled rejection; -1 while it runs.
ExitStatus ==
    IF proc = "exit0" THEN 0
    ELSE IF proc \in {"exit1", "crashed"} THEN 1
    ELSE 0 - 1

\* extractFrames up to the promise it returns: the directory is created when
\* absent, the arguments are built, ffmpeg is spawned.  mkdirSync throwing
\* rejects the promise of the async function.
StartExtract(r, lg, args) ==
    IF fsDir = "blocked"
    THEN /\ extractPromise' = [extractPromise EXCEPT ![r] =
                [st |-> "rejected", val |-> Error("EACCES: mkdir", <<>>)]]
         /\ Catch(r, lg)
         /\ UNCHANGED <<fsDir, ffmpeg>>
    ELSE /\ fsDir' = "present"
         /\ ffmpeg' = [ffmpeg EXCEPT ![r] =
                [NoChild EXCEPT !.st = "running", !.args = args,
                                !.spawns = ffmpeg[r].spawns + 1]]
         /\ extractPromise' = [extractPromise EXCEPT ![r] = Pending]
         /\ log' = [log EXCEPT ![r] = lg]
         /\ pc' = [pc EXCEPT ![r] = "awaitExtract"]
         /\ UNCHANGED <<proc, res>>

\* main after  await getVideoInfo:  the plan, the five console lines,
\* extractFrames(argv.input, argv.output, frameInterval, effectiveMaxFrames).
CliAfterProbe(r, info) ==
    LET totalFrames == info.totalFrames
        frameInterval == frameIntervalOf(argv.percentage)
        effectiveMaxFrames ==
            effectiveMaxFramesOf(argv.maxFrames, totalFrames, frameInterval)
        lg == log[r] \o <<"Input file:", "Output directory:",
                          "Total frames in video:", "Extracting every",
                          "Maximum frames to extract:">>
    IN /\ plan' = [plan EXCEPT ![r] =
               [k |-> "cli", totalFrames |-> totalFrames,
                frameInterval |-> frameInterval,
                effectiveMaxFrames |-> effectiveMaxFrames]]
       /\ StartExtract(r, lg,
              CliFfmpegArgs(argv.input, argv.output, frameInterval,
                            effectiveMaxFrames))

\* The upload handler after  await getVideoInfo:  four console lines,
\* extractFrames(req.file.path, OUTPUT, totalFrames).
ServerAfterProbe(r, info) ==
    LET totalFrames == info.totalFrames
        lg == log[r] \o <<"Input file:", "Output directory:",
                          "Total frames in video:", "Frames to extract:">>
    IN /\ plan' = [plan EXCEPT ![r] =
               [k |-> "server", totalFrames |-> totalFrames]]
       /\ StartExtract(r, lg, ServerFfmpegArgs(FilePath(r), OUTPUT, totalFrames))

\* Mutant of Drained: the callback is attached to 'exit', which Node emits
\* when the subprocess ends, its stdio streams possibly still open.
DrainedOnExit(child) == TRUE

\* The condition under which Node emits 'close' for an ended subprocess: its
\* stdio streams have ended, every 'data' event having been delivered.
Drained(child) == child.pending = <<>>

\* ffprobe.on('close'), emitted once the subprocess has ended and its stdout
\* has been delivered, and the continuation of the caller it wakes up.
ProbeClose(r, code) ==
    /\ proc = "up" /\ ffprobe[r].st = "running" /\ Drained(ffprobe[r])
    /\ LET outcome == getVideoInfoClose(code, output[r]) IN
       /\ ffprobe' = [ffprobe EXCEPT ![r].st = "closed", ![r].code = code]
       /\ probePromise' = [probePromise EXCEPT ![r] =
              IF outcome.settle = "none" THEN @
              ELSE [st |-> outcome.settle, val |-> outcome.val]]
       /\ IF outcome.thrown # "none"
          THEN UncaughtException(r)
               /\ UNCHANGED <<fsDir, ffmpeg, extractPromise, plan>>
          ELSE IF outcome.settle = "rejected"
          THEN Catch(r, log[r])
               /\ UNCHANGED <<fsDir, ffmpeg, extractPromise, plan>>
          ELSE IF mode = "cli" THEN CliAfterProbe(r, outcome.val)
          ELSE ServerAfterProbe(r, outcome.val)
    /\ UNCHANGED <<mode, argv, video, output, stderrEvents, partialEvents>>

\* ffmpeg.on('close') and the continuation of the caller it wakes up.
FfmpegClose(r, code) ==
    /\ proc = "up" /\ ffmpeg[r].st = "running" /\ Drained(ffmpeg[r])
    /\ LET outcome == extractFramesClose(code) IN
       /\ ffmpeg' = [ffmpeg EXCEPT ![r].st = "closed", ![r].code = code]
       /\ extractPromise' = [extractPromise EXCEPT ![r] =
              [st |-> outcome.settle, val |-> outcome.val]]
       /\ IF outcome.settle = "rejected"
          THEN Catch(r, log[r])
          ELSE IF mode = "cli"
          THEN /\ log' = [log EXCEPT ![r] =
                      Append(@, "Frame extraction completed successfully!")]
               /\ proc' = "exit0"
               /\ pc' = [pc EXCEPT ![r] = "done"]
               /\ UNCHANGED res
          ELSE /\ pc' = [pc EXCEPT ![r] = "done"]
               /\ UNCHANGED <<log, proc, res>>
    /\ UNCHANGED <<mode, argv, video, fsDir, ffprobe, output, probePromise,
                   plan, stderrEvents, partialEvents>>

Next ==
    \/ CliMain
    \/ \E r \in Runs, hasFile \in BOOLEAN : Upload(r, hasFile)
    \/ \E r \in Runs : StdoutData(r)
    \/ \E r \in Runs : ProbeStderr(r)
    \/ \E r \in Runs : FfmpegStderr(r)
    \/ \E r \in Runs, code \in ExitCodes : ProbeClose(r, code)
    \/ \E r \in Runs, code \in ExitCodes : FfmpegClose(r, code)

Spec == Init /\ [][Next]_vars

\* The guard of ProbeClose(r, code), the same for every code: ffprobe's
\* 'close' event can be delivered.
ProbeCloseEnabled(r) ==
    proc = "up" /\ ffprobe[r].st = "running" /\ Drained(ffprobe[r])

\* Every spawned subprocess eventually closes: its output is delivered and
\* its 'close' event is emitted, for as long as the Node process is there to
\* receive them; main() is called when the CLI starts.  Nothing is assumed of
\* the arrival of uploads or of stderr output.  The weak fairness of
\* ProbeClose is written out: a ProbeClose step of run r leaves ffprobe
\* closed, so the action is not enabled for ever exactly when it is taken
\* once it is enabled.
FairSpec ==
    /\ Spec
    /\ WF_vars(CliMain)
    /\ \A r \in Runs :
           /\ WF_vars(StdoutData(r))
           /\ []<>~ProbeCloseEnabled(r)
           /\ WF_vars(\E code \in ExitCodes : FfmpegClose(r, code))

-----------------------------------------------------------------------------
(* Properties.                                                             *)

\* A percentage in (0, 100].
InRange(p) == p.n > 0 /\ p.n <= 100 * p.d

\* The integer nearest to 100/p, a tie going up: Math.round as a relation.
IsRound100Over(k, p) ==
    /\ 0 - p.n < 2 * k * p.n - 200 * p.d
    /\ 2 * k * p.n - 200 * p.d <= p.n

CliPlanned(r) == mode = "cli" /\ plan[r].k = "cli"

\* C1: for every percentage in (0,100] the planner's frameInterval is an
\* integer >= 1 and equals max(1, round(100/percentage)); 30 frames at 25%
\* give interval 4 and (uncapped) effectiveMaxFrames 8, and 100% gives
\* interval 1.
C1_FrameInterval ==
    \A r \in Runs :
        CliPlanned(r) /\ InRange(argv.percentage) =>
            LET fi == plan[r].frameInterval
                p == argv.percentage
            IN /\ fi \in Nat /\ fi >= 1
               /\ \E k \in 0..(200 * p.d) :
                      IsRound100Over(k, p) /\ fi = (IF k >= 1 THEN k ELSE 1)
               /\ p = [n |-> 100, d |-> 1] => fi = 1
               /\ p = [n |-> 25, d |-> 1] => fi = 4
               /\ ( /\ p = [n |-> 25, d |-> 1]
                    /\ plan[r].totalFrames = Num(30)
                    /\ argv.maxFrames = Undefined )
                  => plan[r].effectiveMaxFrames = Num(8)

C1_Witness ==
    /\ CliPlanned(1)
    /\ argv.percentage = [n |-> 25, d |-> 1]
    /\ argv.maxFrames = Undefined
    /\ plan[1].totalFrames = Num(30)
    /\ plan[1].frameInterval = 4
    /\ plan[1].effectiveMaxFrames = Num(8)

\* ceil(t / i) as a relation: the least c with c * i >= t.
IsCeilDiv(c, t, i) == c * i >= t /\ (c - 1) * i < t

\* C2: whenever a non-negative integer cap is supplied, effectiveMaxFrames
\* is min(cap, ceil(totalFrames/frameInterval)), so at most the cap; with no
\* cap it is ceil(totalFrames/frameInterval).
C2_CapRespected ==
    \A r \in Runs :
        ( /\ CliPlanned(r) /\ InRange(argv.percentage)
          /\ plan[r].totalFrames.k = "num" /\ plan[r].totalFrames.v >= 0 )
        => LET eff == plan[r].effectiveMaxFrames
               t == plan[r].totalFrames.v
               i == plan[r].frameInterval
               cap == argv.maxFrames
           IN /\ eff.k = "num"
              /\ (cap.k = "num" /\ cap.v >= 0) =>
                     /\ eff.v <= cap.v
                     /\ eff.v = cap.v \/ IsCeilDiv(eff.v, t, i)
              /\ cap = Undefined => IsCeilDiv(eff.v, t, i)

\* C3: with totalFrames > 0, a percentage in (0,100] and any cap the CLI
\* accepts (or none), the effectiveMaxFrames handed to extractFrames is an
\* integer >= 1.
C3_EffectivePositive ==
    \A r \in Runs :
        ( /\ CliPlanned(r) /\ InRange(argv.percentage)
          /\ plan[r].totalFrames.k = "num" /\ plan[r].totalFrames.v > 0 )
        => /\ plan[r].effectiveMaxFrames.k = "num"
           /\ plan[r].effectiveMaxFrames.v >= 1

\* C4: in the CLI, whenever the probe resolved with an integer
\* totalFrames >= 0, the ffmpeg argument list holds '-vframes' and the
\* effectiveMaxFrames right after '-i <inputPath>'.
C4_VframesAlways ==
    \A r \in Runs :
        ( /\ CliPlanned(r) /\ ffmpeg[r].st # "none"
          /\ plan[r].totalFrames.k = "num" /\ plan[r].totalFrames.v >= 0 )
        => /\ Len(ffmpeg[r].args) >= 4
           /\ ffmpeg[r].args[1] = <<"-i">>
           /\ ffmpeg[r].args[2] = argv.input
           /\ ffmpeg[r].args[3] = <<"-vframes">>
           /\ ffmpeg[r].args[4] = NumberToString(plan[r].effectiveMaxFrames)


\* Whether the error e carries the exit code in what it interpolates.
CarriesCode(e, code) == \E i \in 1..Len(e.args) : e.args[i] = code

\* C5 (as amended): a subprocess closing with a non-zero exit code rejects
\* the promise, which is then never resolved; the error of extractFrames
\* carries that exit code, the error of getVideoInfo is the fixed text
\* 'Failed to get video information' without it; ffmpeg closing with code 0
\* resolves the promise of extractFrames.
C5_ExitCodeSettles ==
    \A r \in Runs :
        /\ (ffprobe[r].st = "closed" /\ ffprobe[r].code # 0) =>
               /\ probePromise[r].st = "rejected"
               /\ probePromise[r].val.text = "Failed to get video information"
               /\ probePromise[r].val.args = <<>>
        /\ (ffmpeg[r].st = "closed" /\ ffmpeg[r].code # 0) =>
               /\ extractPromise[r].st = "rejected"
               /\ CarriesCode(extractPromise[r].val, ffmpeg[r].code)
        /\ (ffmpeg[r].st = "closed" /\ ffmpeg[r].code = 0) =>
               extractPromise[r].st = "resolved"

\* C5 (as claimed): the rejection error of getVideoInfo carries the exit
\* code too.
C5_ExitCodeCarried ==
    \A r \in Runs :
        /\ (ffprobe[r].st = "closed" /\ ffprobe[r].code # 0) =>
               /\ probePromise[r].st = "rejected"
               /\ CarriesCode(probePromise[r].val, ffprobe[r].code)
        /\ (ffmpeg[r].st = "closed" /\ ffmpeg[r].code # 0) =>
               /\ extractPromise[r].st = "rejected"
               /\ CarriesCode(extractPromise[r].val, ffmpeg[r].code)
        /\ (ffmpeg[r].st = "closed" /\ ffmpeg[r].code = 0) =>
               extractPromise[r].st = "resolved"

\* The server with one upload whose ffprobe exited with 1 and another whose
\* ffmpeg exited with 2.
C5_Witness ==
    /\ mode = "server"
    /\ \E r, q \in Runs :
           /\ ffprobe[r].st = "closed" /\ ffprobe[r].code = 1
           /\ probePromise[r].st = "rejected"
           /\ ffmpeg[q].st = "closed" /\ ffmpeg[q].code = 2
           /\ extractPromise[q].st = "rejected"

\* The probe or the extraction of upload r has failed with a rejected
\* promise (the failures that reach the handler's catch block).
Failed(r) ==
    \/ probePromise[r].st = "rejected"
    \/ extractPromise[r].st = "rejected"

\* C6: when the probe or the extraction of an upload fails after the
\* success response was sent, the handler writes no second response, no
\* error escapes the handler, and the server stays up.
C6_FailureOnlyLogged ==
    \A r \in Runs :
        (mode = "server" /\ res[r].wire # <<>> /\ Failed(r)) =>
            /\ res[r].jsonCalls <= 1
            /\ pc[r] # "rejected"
            /\ proc = "up"

\* C7: the server's ffmpeg argument list is always
\* -i <path> -vframes 200 -vsync 0 -frame_pts 1 -f image2 frames/frame_%d.jpg,
\* whatever totalFrames was probed.
C7_ServerArgsFixed ==
    \A r \in Runs :
        (mode = "server" /\ ffmpeg[r].st # "none") =>
            ffmpeg[r].args =
                << <<"-i">>, <<"uploads", "/", ToString(r)>>,
                   <<"-vframes">>, <<"2", "0", "0">>,
                   <<"-vsync">>, <<"0">>,
                   <<"-frame_pts">>, <<"1">>,
                   <<"-f">>, <<"image2">>,
                   <<"frames", "/", "frame_%d.jpg">> >>

\* Two uploads reached ffmpeg, the probe having found 1000 frames.
C7_Witness ==
    /\ mode = "server"
    /\ \A r \in {1, 2} :
           /\ ffmpeg[r].st # "none"
           /\ plan[r].k = "server" /\ plan[r].totalFrames = Num(1000)

\* ffprobe's collected output is not well-formed JSON or has no streams[0].
BadOutput(text) ==
    \/ ~JSONparse(text).ok
    \/ JSONparse(text).v.streams.k # "array"
    \/ JSONparse(text).v.streams.a = <<>>

\* C8: when ffprobe closes with code 0 and such an output, the promise of
\* getVideoInfo is rejected: it is not left pending and no exception leaves
\* the callback.
C8_BadOutputRejects ==
    \A r \in Runs :
        (ffprobe[r].st = "closed" /\ ffprobe[r].code = 0 /\ BadOutput(output[r])) =>
            /\ probePromise[r].st = "rejected"
            /\ pc[r] # "hung"

\* C9: every VideoInfo getVideoInfo resolves with has frameRate = num/den > 0
\* (an r_frame_rate that is not num/den, or has a zero denominator, rejects).
C9_FrameRatePositive ==
    \A r \in Runs :
        probePromise[r].st = "resolved" =>
            /\ probePromise[r].val.frameRate.k = "ratio"
            /\ probePromise[r].val.frameRate.n > 0
            /\ probePromise[r].val.frameRate.d > 0

\* C10: once ffprobe has been spawned for an upload, the success response
\* has been sent, and it stays the one response of the request, with status
\* 200 and the same body, whatever happens later.
C10_ResponseFirst ==
    \A r \in Runs :
        (mode = "server" /\ ffprobe[r].st # "none") =>
            res[r].wire = << [status |-> 200, body |-> SuccessBody] >>

\* Both outcomes after the response: one upload whose handler failed and set
\* the status to 500, another whose extraction succeeded.
C10_Witness ==
    /\ mode = "server"
    /\ \E r, q \in Runs :
           /\ Failed(r) /\ res[r].statusCode = 500
           /\ res[r].wire = << [status |-> 200, body |-> SuccessBody] >>
           /\ extractPromise[q].st = "resolved"
           /\ res[q].wire = << [status |-> 200, body |-> SuccessBody] >>

\* The CLI run has failed: ffprobe ended with a non-zero code, or its output
\* made the 'close' callback throw, or the output directory could not be
\* created, or ffmpeg ended with a non-zero code.
CliFailure ==
    /\ mode = "cli"
    /\ \/ ffprobe[1].st = "closed" /\ ffprobe[1].code # 0
       \/ /\ ffprobe[1].st = "closed"
          /\ getVideoInfoClose(ffprobe[1].code, output[1]).thrown # "none"
       \/ extractPromise[1] = [st |-> "rejected", val |-> Error("EACCES: mkdir", <<>>)]
       \/ ffmpeg[1].st = "closed" /\ ffmpeg[1].code # 0

\* The last line the run wrote is an error message.
ErrorPrinted ==
    /\ log[1] # <<>>
    /\ log[1][Len(log[1])] \in {"Error:", "Uncaught"}

\* C11: a CLI run that failed (ffprobe non-zero, unparseable probe output,
\* directory creation failure, ffmpeg non-zero) has printed an error message
\* and exited with a non-zero status; the success line is printed only when
\* ffmpeg closed with code 0.
C11_CliFailureExits ==
    /\ CliFailure => (ErrorPrinted /\ ExitStatus > 0)
    /\ \A i \in 1..Len(log[1]) :
           (mode = "cli" /\ log[1][i] = "Frame extraction completed successfully!") =>
               ffmpeg[1].st = "closed" /\ ffmpeg[1].code = 0

\* The probe's output did not parse: the exception left the 'close' callback
\* and the process ended with status 1.
C11_Witness ==
    /\ mode = "cli"
    /\ ffprobe[1].st = "closed" /\ ffprobe[1].code = 0
    /\ ~JSONparse(output[1]).ok
    /\ ExitStatus = 1

\* The file pattern an ffmpeg invocation writes to: its last argument.
OutputPattern(args) == args[Len(args)]

\* C12: two uploads whose extractions have started (both in flight, or one
\* earlier than the other) write to different output file paths.
C12_DistinctOutputs ==
    \A r, q \in Runs :
        (mode = "server" /\ r # q /\ ffmpeg[r].st # "none" /\ ffmpeg[q].st # "none") =>
            OutputPattern(ffmpeg[r].args) # OutputPattern(ffmpeg[q].args)

Settled(p) == p.st \in {"resolved", "rejected"}

\* How many times a line occurs in a run's console output.
CountLines(lg, line) == Cardinality({ i \in 1..Len(lg) : lg[i] = line })

\* No 'data' callback of a subprocess runs once the promise that waits for
\* it is settled: getVideoInfo's output and the stderr lines stay as they are.
NoDataAfterSettle ==
    \A r \in Runs :
        /\ Settled(probePromise[r]) =>
               /\ output'[r] = output[r]
               /\ CountLines(log'[r], "ffprobe error:") =
                      CountLines(log[r], "ffprobe error:")
        /\ (Settled(extractPromise[r]) /\ ffmpeg[r].st # "none") =>
               CountLines(log'[r], "ffmpeg error:") =
                   CountLines(log[r], "ffmpeg error:")

\* The promise is settled only when the subprocess has closed, and what the
\* probe parsed is all of the text ffprobe wrote, in order.
SettledAfterClose ==
    \A r \in Runs :
        /\ Settled(probePromise[r]) => ffprobe[r].st = "closed"
        /\ ffprobe[r].st = "closed" =>
               /\ output[r] = video
               /\ Settled(probePromise[r]) =>
                      LET outcome == getVideoInfoClose(ffprobe[r].code, video)
                      IN probePromise[r] = [st |-> outcome.settle, val |-> outcome.val]
        /\ (Settled(extractPromise[r]) /\ ffmpeg[r].st # "none") =>
               ffmpeg[r].st = "closed"

\* C13: the promises of getVideoInfo and of extractFrames settle only after
\* the subprocess has closed; no data callback of that subprocess runs after
\* settlement; the probe parses the concatenation of all stdout chunks in
\* arrival order, never a prefix.
C13_SettleAfterDrain == []SettledAfterClose /\ [][NoDataAfterSettle]_vars

\* The text arrived in two chunks and the probe resolved from all of it.
C13_Witness ==
    /\ mode = "cli" /\ partialEvents > 0
    /\ probePromise[1].st = "resolved"
    /\ output[1] = video /\ Len(video) > 1

\* C14: within one run at most one subprocess is alive at any time: ffmpeg
\* is spawned only after ffprobe has closed with exit code 0 and its output
\* has been parsed.
C14_OneSubprocessAlive ==
    \A r \in Runs :
        /\ ~(ffprobe[r].st = "running" /\ ffmpeg[r].st = "running")
        /\ ffmpeg[r].st # "none" =>
               LET parsed == getVideoInfoClose(0, output[r])
               IN /\ ffprobe[r].st = "closed" /\ ffprobe[r].code = 0
                  /\ parsed.thrown = "none"
                  /\ probePromise[r] = [st |-> "resolved", val |-> parsed.val]

\* ffmpeg runs for the CLI and for an upload, ffprobe having closed.
C14_Witness ==
    \E r \in Runs :
        /\ ffmpeg[r].st = "running"
        /\ ffprobe[r].st = "closed" /\ ffprobe[r].code = 0
        /\ probePromise[r].st = "resolved"

\* The ffprobe invocation of run r has failed: a non-zero exit code, or an
\* output from which getVideoInfo did not resolve.
ProbeFailed(r) ==
    /\ ffprobe[r].st = "closed"
    /\ ffprobe[r].code # 0 \/ probePromise[r].st # "resolved"

\* C15: no retries: each run spawns ffprobe at most once and ffmpeg at most
\* once, and after a failed ffprobe invocation ffmpeg is never spawned for
\* that run.
C15_NoRetries ==
    \A r \in Runs :
        /\ ffprobe[r].spawns <= 1
        /\ ffmpeg[r].spawns <= 1
        /\ ProbeFailed(r) => (ffmpeg[r].spawns = 0 /\ ffmpeg[r].st = "none")

\* A run ended after its probe failed, and another after its extraction
\* failed: each subprocess was spawned once.
C15_Witness ==
    \E r, q \in Runs :
        /\ ProbeFailed(r) /\ ffprobe[r].spawns = 1
        /\ pc[r] \in {"done", "failed", "rejected"}
        /\ ffmpeg[q].st = "closed" /\ ffmpeg[q].code # 0 /\ ffmpeg[q].spawns = 1
        /\ pc[q] \in {"done", "failed", "rejected"}

\* What a promise becomes under an outcome of the 'close' callback: settled
\* as the outcome says, or left pending when the callback threw.
PromiseAfter(outcome) ==
    IF outcome.settle = "none" THEN Pending
    ELSE [st |-> outcome.settle, val |-> outcome.val]

\* C16: diagnostic output never decides the outcome: whatever stderr chunks
\* were delivered, the promise of getVideoInfo is pending while ffprobe runs
\* and, once it closed, is the function of the exit code and the stdout
\* payload alone; the promise of extractFrames, once ffmpeg was spawned, is
\* pending while it runs and then the function of the exit code alone.
C16_StderrDecidesNothing ==
    \A r \in Runs :
        /\ ffprobe[r].st = "running" => probePromise[r] = Pending
        /\ ffprobe[r].st = "closed" =>
               probePromise[r] = PromiseAfter(getVideoInfoClose(ffprobe[r].code, video))
        /\ ffmpeg[r].st = "running" => extractPromise[r] = Pending
        /\ ffmpeg[r].st = "closed" =>
               extractPromise[r] = PromiseAfter(extractFramesClose(ffmpeg[r].code))

\* ffprobe wrote to stderr and yet the probe resolved.
C16_Witness ==
    \E r \in Runs :
        /\ CountLines(log[r], "ffprobe error:") > 0
        /\ ffprobe[r].st = "closed" /\ ffprobe[r].code = 0
        /\ probePromise[r].st = "resolved"

\* C17: in the CLI, with a positive integer --maxFrames cap, whatever the
\* probe found (nb_frames 0, missing or not a number included), the ffmpeg
\* invocation carries '-vframes v' with 1 <= v <= cap.
C17_CapNeverDropped ==
    ( /\ CliPlanned(1) /\ ffmpeg[1].st # "none"
      /\ argv.maxFrames.k = "num" /\ argv.maxFrames.v >= 1 )
    => /\ Len(ffmpeg[1].args) >= 4
       /\ ffmpeg[1].args[3] = <<"-vframes">>
       /\ \E v \in 1..argv.maxFrames.v : ffmpeg[1].args[4] = NatToString(v)

\* The frames of a video of t frames that select='not(mod(n,i))' keeps.
KeptFrames(t, i) == { n \in 0..(t - 1) : n % i = 0 }

\* C18: with no user cap, for every totalFrames >= 0 and frameInterval >= 1
\* the effective maximum, ceil(totalFrames/frameInterval), is the number of
\* frame indices the modulo filter keeps, and it is the '-vframes' value
\* ffmpeg gets when a limit is passed.
C18_CeilCountsKept ==
    ( /\ CliPlanned(1) /\ argv.maxFrames = Undefined
      /\ plan[1].totalFrames.k = "num" /\ plan[1].totalFrames.v >= 0 )
    => LET kept == Cardinality(KeptFrames(plan[1].totalFrames.v,
                                          plan[1].frameInterval))
       IN /\ plan[1].frameInterval >= 1
          /\ plan[1].effectiveMaxFrames = Num(kept)
          /\ (ffmpeg[1].st # "none" /\ ffmpeg[1].args[3] = <<"-vframes">>) =>
                 ffmpeg[1].args[4] = NatToString(kept)

\* 1000 frames at 3%: every 33rd frame, 31 frames kept (0, 33, ..., 990).
C18_Witness ==
    /\ CliPlanned(1) /\ argv.maxFrames = Undefined
    /\ plan[1].totalFrames = Num(1000) /\ plan[1].frameInterval = 33
    /\ plan[1].effectiveMaxFrames = Num(31)
    /\ ffmpeg[1].st # "none" /\ ffmpeg[1].args[4] = <<"3", "1">>

\* Run r waits for a subprocess.
Awaiting(r) == pc[r] \in {"awaitProbe", "awaitExtract"}

\* The CLI run has terminated (exit status 0 after the success message, or
\* exit status 1); the upload handler has returned or thrown.
Finished(r) ==
    IF mode = "cli" THEN ExitStatus >= 0
    ELSE pc[r] \in {"done", "rejected"}

\* C19: if every spawned subprocess eventually closes, every CLI run
\* eventually terminates and every upload handler eventually finishes.
C19_RunsComplete == \A r \in Runs : Awaiting(r) ~> Finished(r)

=============================================================================
